---- MODULE Spec2Model ----
(***************************************************************************)
(* Model of src/src/blockchain/blockchain.rs: the audit path               *)
(* (audit_votes: load_xxn, key decoding, map_votes, get_data, count_votes) *)
(* and the commit path (commit: leaf assembly, pad, new_tree, store_tree,  *)
(* post).  Strings are sequences of bytes (Rust String = UTF-8 bytes).     *)
(***************************************************************************)
EXTENDS Integers, Sequences, FiniteSets, TLC

(* ------------------------------ bounds --------------------------------- *)
MaxBallots == 2
MaxTx == 2
MaxItems == 1

(* ------------------------- bytes and text ------------------------------ *)
\* ASCII "1111", "2222", "3333": the vote codes of the model.
Code1111 == <<49, 49, 49, 49>>
Code2222 == <<50, 50, 50, 50>>
Code3333 == <<51, 51, 51, 51>>
\* ASCII "zz": a vote code text that is no vote code.
CodeZZ == <<122, 122>>

\* Codes printed on ballots, and the codes a transaction may carry.
BallotCodes == {Code1111, Code2222}
VoteCodes == {Code1111, Code2222, Code3333}
ChoiceValue == {"For", "Against"}

\* hex crate, val(): the value of one hex digit byte, -1 when it is none.
HexVal(b) ==
    IF b \in 48..57 THEN b - 48
    ELSE IF b \in 97..102 THEN b - 87
    ELSE IF b \in 65..70 THEN b - 55
    ELSE -1

\* hex::encode: two lowercase hex digit bytes per byte.
HexDigit(n) == IF n < 10 THEN 48 + n ELSE 87 + n

RECURSIVE HexEncode(_)
HexEncode(bs) ==
    IF bs = <<>> THEN <<>>
    ELSE <<HexDigit(Head(bs) \div 16), HexDigit(Head(bs) % 16)>> \o HexEncode(Tail(bs))

RECURSIVE HexPairs(_)
HexPairs(s) ==
    IF s = <<>> THEN <<>>
    ELSE <<16 * HexVal(s[1]) + HexVal(s[2])>> \o HexPairs(SubSeq(s, 3, Len(s)))

\* hex::decode: Err on odd length or on a byte that is no hex digit.
HexDecode(s) ==
    IF Len(s) % 2 # 0 \/ \E i \in 1..Len(s) : HexVal(s[i]) = -1
    THEN [ok |-> FALSE, bytes |-> <<>>]
    ELSE [ok |-> TRUE, bytes |-> HexPairs(s)]

IsCont(b) == b \in 128..191

\* Length of the UTF-8 scalar starting at s[i], 0 when s[i..] starts no valid one.
Utf8Width(s, i) ==
    LET b == s[i]
        has(n) == i + n - 1 <= Len(s)
        cont(k) == IsCont(s[i + k])
    IN  IF b < 128 THEN 1
        ELSE IF b \in 194..223 THEN (IF has(2) /\ cont(1) THEN 2 ELSE 0)
        ELSE IF b \in 224..239
             THEN (IF has(3) /\ cont(1) /\ cont(2)
                      /\ (b = 224 => s[i + 1] >= 160)
                      /\ (b = 237 => s[i + 1] <= 159) THEN 3 ELSE 0)
        ELSE IF b \in 240..244
             THEN (IF has(4) /\ cont(1) /\ cont(2) /\ cont(3)
                      /\ (b = 240 => s[i + 1] >= 144)
                      /\ (b = 244 => s[i + 1] <= 143) THEN 4 ELSE 0)
        ELSE 0

RECURSIVE Utf8ValidFrom(_, _)
Utf8ValidFrom(s, i) ==
    IF i > Len(s) THEN TRUE
    ELSE LET w == Utf8Width(s, i)
         IN  IF w = 0 THEN FALSE ELSE Utf8ValidFrom(s, i + w)

\* String::from_utf8: Ok exactly on well-formed UTF-8.
FromUtf8(bs) == [ok |-> Utf8ValidFrom(bs, 1), text |-> bs]

\* str::is_char_boundary(n) (n is a 0-based byte offset).
IsCharBoundary(s, n) ==
    \/ n = 0
    \/ n = Len(s)
    \/ n < Len(s) /\ ~IsCont(s[n + 1])

\* The JSON document {"votecode":"<text>"} as bytes.
JsonOpen == <<123, 34, 118, 111, 116, 101, 99, 111, 100, 101, 34, 58, 34>>
JsonClose == <<34, 125>>
JsonVote(text) == JsonOpen \o text \o JsonClose

\* serde_json::from_str::<SubmittedVote>: the text is one object holding the
\* string field votecode (no escapes in the value).
ParseSubmittedVote(text) ==
    LET n == Len(text)
        lo == Len(JsonOpen)
        lc == Len(JsonClose)
        shaped == /\ n >= lo + lc
                  /\ SubSeq(text, 1, lo) = JsonOpen
                  /\ SubSeq(text, n - lc + 1, n) = JsonClose
        body == SubSeq(text, lo + 1, n - lc)
    IN  IF shaped /\ \A i \in 1..Len(body) : body[i] \notin {34, 92}
        THEN [ok |-> TRUE, vote |-> [votecode |-> body]]
        ELSE [ok |-> FALSE, vote |-> [votecode |-> <<>>]]

\* SubmittedVote::to_votecode: a Result; Ok on a text that is a vote code.
ToVotecode(vote) ==
    IF vote.votecode # <<>> /\ \A i \in 1..Len(vote.votecode) : vote.votecode[i] \in 48..57
    THEN [ok |-> TRUE, votecode |-> vote.votecode]
    ELSE [ok |-> FALSE, votecode |-> <<>>]

(* ------------------------ transaction_to_votecode ---------------------- *)
None == [tag |-> "None"]
Some(v) == [tag |-> "Some", vote |-> v]
Panic == [tag |-> "panic"]

\* &transaction.input[2..]: panics when 2 is past the end or inside a character.
SliceFrom2(input) ==
    IF Len(input) < 2 \/ ~IsCharBoundary(input, 2)
    THEN [ok |-> FALSE, rest |-> <<>>]
    ELSE [ok |-> TRUE, rest |-> SubSeq(input, 3, Len(input))]

transaction_to_votecode(transaction) ==
    LET sl == SliceFrom2(transaction.input)
        hx == HexDecode(sl.rest)
        tx == FromUtf8(hx.bytes)
        js == ParseSubmittedVote(tx.text)
    IN  IF ~sl.ok THEN Panic
        ELSE IF ~hx.ok THEN None
        ELSE IF ~tx.ok THEN None
        ELSE IF ~js.ok THEN None
        ELSE Some(js.vote)

(* ------------------------------ map_votes ------------------------------ *)
\* HashMap<VoteCode, ChoiceValue> as a function on its key set.
EmptyMap == [c \in {} |-> "For"]
\* An insert that keeps the value of a key already present.
InsertKeepFirst(m, k, v) == [c \in DOMAIN m \cup {k} |-> IF c \in DOMAIN m THEN m[c] ELSE v]
Insert(m, k, v) == [c \in DOMAIN m \cup {k} |-> IF c = k THEN v ELSE m[c]]
Remove(m, k) == [c \in DOMAIN m \ {k} |-> m[c]]

\* The closure of for_each: both choices of one ballot, choice1 first.
InsertBallot(m, ballot) ==
    Insert(Insert(m, ballot.choice1.votecode, ballot.choice1.choice),
           ballot.choice2.votecode, ballot.choice2.choice)

RECURSIVE FoldBallots(_, _)
FoldBallots(m, bs) ==
    IF bs = <<>> THEN m ELSE FoldBallots(InsertBallot(m, Head(bs)), Tail(bs))

map_votes(bs) == FoldBallots(EmptyMap, bs)

(* ------------------------------ count_votes ---------------------------- *)
\* CountOne with the matched code left in the index.
CountOneKeep(ch, vf, va, transaction) ==
    LET d == transaction_to_votecode(transaction)
        vc == IF d.tag = "Some" THEN ToVotecode(d.vote) ELSE [ok |-> FALSE, votecode |-> <<>>]
        hit == vc.ok /\ vc.votecode \in DOMAIN ch
    IN  [panic |-> d.tag = "panic" \/ (d.tag = "Some" /\ ~vc.ok),
         choices |-> ch,
         vote_for |-> IF hit /\ ch[vc.votecode] = "For" THEN vf + 1 ELSE vf,
         vote_against |-> IF hit /\ ch[vc.votecode] = "Against" THEN va + 1 ELSE va]

\* CountOne with the two counters exchanged.
CountOneSwapped(ch, vf, va, transaction) ==
    LET d == transaction_to_votecode(transaction)
        vc == IF d.tag = "Some" THEN ToVotecode(d.vote) ELSE [ok |-> FALSE, votecode |-> <<>>]
        hit == vc.ok /\ vc.votecode \in DOMAIN ch
    IN  [panic |-> d.tag = "panic" \/ (d.tag = "Some" /\ ~vc.ok),
         choices |-> IF hit THEN Remove(ch, vc.votecode) ELSE ch,
         vote_for |-> IF hit /\ ch[vc.votecode] = "Against" THEN vf + 1 ELSE vf,
         vote_against |-> IF hit /\ ch[vc.votecode] = "For" THEN va + 1 ELSE va]

\* CountOne where a counted code also cancels the codes of the other choice.
CountOneCancel(ch, vf, va, transaction) ==
    LET d == transaction_to_votecode(transaction)
        vc == IF d.tag = "Some" THEN ToVotecode(d.vote) ELSE [ok |-> FALSE, votecode |-> <<>>]
        hit == vc.ok /\ vc.votecode \in DOMAIN ch
        kept == {c \in DOMAIN ch : ch[c] = ch[vc.votecode] /\ c # vc.votecode}
    IN  [panic |-> d.tag = "panic" \/ (d.tag = "Some" /\ ~vc.ok),
         choices |-> IF hit THEN [c \in kept |-> ch[c]] ELSE ch,
         vote_for |-> IF hit /\ ch[vc.votecode] = "For" THEN vf + 1 ELSE vf,
         vote_against |-> IF hit /\ ch[vc.votecode] = "Against" THEN va + 1 ELSE va]

\* One pass of the for_each closure of count_votes over one transaction:
\* the new (choices, vote_for, vote_against), or a panic.
CountOne(ch, vf, va, transaction) ==
    LET d == transaction_to_votecode(transaction)
        same == [panic |-> FALSE, choices |-> ch, vote_for |-> vf, vote_against |-> va]
        boom == [panic |-> TRUE, choices |-> ch, vote_for |-> vf, vote_against |-> va]
    IN  IF d.tag = "panic" THEN boom
        ELSE IF d.tag = "None" THEN same
        ELSE LET vc == ToVotecode(d.vote)
             IN  IF ~vc.ok THEN boom
                 ELSE IF vc.votecode \notin DOMAIN ch THEN same
                 ELSE [panic |-> FALSE,
                       choices |-> Remove(ch, vc.votecode),
                       vote_for |-> IF ch[vc.votecode] = "For" THEN vf + 1 ELSE vf,
                       vote_against |-> IF ch[vc.votecode] = "Against" THEN va + 1 ELSE va]

(* ------------------------------ inputs --------------------------------- *)
Choice == [votecode : BallotCodes, choice : ChoiceValue]
BallotAt(i) == [serial : {i}, choice1 : Choice, choice2 : Choice]
BallotLists ==
    UNION {{bs \in [1..n -> UNION {BallotAt(i) : i \in 1..n}] :
               \A i \in 1..n : bs[i].serial = i} : n \in 0..MaxBallots}

Prefix0x == <<48, 120>>
\* The inputs of the transactions the explorer may list.
InputEmpty == <<>>
InputOneByte == <<48>>
InputSplitChar == <<48, 195, 169>>
InputNoData == Prefix0x
InputBadHex == Prefix0x \o <<122, 122>>
InputOddHex == Prefix0x \o <<55>>
InputNotUtf8 == Prefix0x \o <<102, 102>>
InputNotVote == Prefix0x \o HexEncode(<<123, 125>>)
InputVote(text) == Prefix0x \o HexEncode(JsonVote(text))
TxInputs ==
    {InputEmpty, InputOneByte, InputSplitChar, InputNoData, InputBadHex, InputOddHex,
     InputNotUtf8, InputNotVote, InputVote(CodeZZ)}
    \cup {InputVote(c) : c \in VoteCodes}
Transaction == [input : TxInputs]
TxLists == UNION {[1..n -> Transaction] : n \in 0..MaxTx}

(* --------------------------- network configuration --------------------- *)
RECURSIVE Repeat(_, _)
Repeat(x, n) == IF n = 0 THEN <<>> ELSE <<x>> \o Repeat(x, n - 1)

\* config.key as written in the configuration file (hex text).
KeyNotHex == <<122, 122>>
KeyOddHex == <<49>>
KeyShort == <<48, 49>>
KeyZero == Repeat(48, 64)
KeyOverflow == Repeat(102, 64)
KeyGood == Repeat(48, 62) \o <<48, 49>>
Keys == {KeyNotHex, KeyOddHex, KeyShort, KeyZero, KeyOverflow, KeyGood}

\* The order of the secp256k1 group, big endian.
CurveOrder ==
    Repeat(255, 15) \o <<254, 186, 174, 220, 230, 175, 72, 160, 59, 191, 210, 94,
                         140, 208, 54, 65, 65>>

RECURSIVE LessBytes(_, _)
LessBytes(a, b) ==
    IF a = <<>> \/ b = <<>> THEN FALSE
    ELSE IF Head(a) # Head(b) THEN Head(a) < Head(b)
    ELSE LessBytes(Tail(a), Tail(b))

\* SecretKey::from_slice: 32 bytes, not zero, below the group order.
SecretKeyFromSlice(bytes) ==
    /\ Len(bytes) = 32
    /\ \E i \in 1..Len(bytes) : bytes[i] # 0
    /\ LessBytes(bytes, CurveOrder)

\* DecodeKey without the from_slice check.
DecodeKeyUnchecked(text) ==
    LET hx == HexDecode(text)
    IN  IF ~hx.ok THEN [ok |-> FALSE, key |-> <<>>] ELSE [ok |-> TRUE, key |-> hx.bytes]

\* SecretKey::from_slice(&hex::decode(config.key)?)? : the key, or the error.
DecodeKey(text) ==
    LET hx == HexDecode(text)
    IN  IF ~hx.ok THEN [ok |-> FALSE, key |-> <<>>]
        ELSE IF ~SecretKeyFromSlice(hx.bytes) THEN [ok |-> FALSE, key |-> <<>>]
        ELSE [ok |-> TRUE, key |-> hx.bytes]

\* key.address(): the public address of a private key.
AddressOf(key) == <<"address", key>>

Nodes == {"http://node", "not a uri"}
NetworkConfig == [node : Nodes, key : Keys, api : {"apikey"}]
NoConfig == [node |-> "", key |-> <<>>, api |-> ""]
NoAddress == <<"address">>


(* ------------------------------- commit -------------------------------- *)
SeqsUpTo(S, n) == UNION {[1..k -> S] : k \in 0..n}

Voters == {"alice", "bob"}
AuditedBallot == {"ballot 1", "ballot 2"}
Rows == {"row 1", "row 2"}

\* pollconf.voter_roster: None, or the base64 text of the YAML of a roster
\* (kept as what each decoding stage of lines 220-223 makes of it).
RosterTexts ==
    [stage : {"base64", "utf8", "yaml"}, records : {<<>>}]
    \cup [stage : {"ok"}, records : SeqsUpTo(Voters, MaxItems)]
OptionOf(S) == {[some |-> FALSE]} \cup [some : {TRUE}, value : S]
PollConfiguration ==
    [voter_roster : OptionOf(RosterTexts),
     audited_ballots : OptionOf(SeqsUpTo(AuditedBallot, MaxItems)),
     num_ballots : {2}]
Plane == [rows : SeqsUpTo(Rows, MaxItems)]
PlaneLists == SeqsUpTo(Plane, MaxItems)
NoPoll == [voter_roster |-> [some |-> FALSE], audited_ballots |-> [some |-> FALSE],
           num_ballots |-> 0]

\* serde_yaml::to_string(&voter)
YamlOf(voter) == <<"yaml", voter>>
\* row.serializable(num_ballots): the two committed cells of a row.
Serializable(row, num_ballots) ==
    [col1 |-> <<row, "col1", num_ballots>>, col3 |-> <<row, "col3", num_ballots>>]

RECURSIVE MapYaml(_)
MapYaml(records) ==
    IF records = <<>> THEN <<>> ELSE <<YamlOf(Head(records))>> \o MapYaml(Tail(records))

\* Row cells with col3 pushed before col1.
RECURSIVE RowCellsCol3First(_, _)
RowCellsCol3First(rows, num_ballots) ==
    IF rows = <<>> THEN <<>>
    ELSE <<Serializable(Head(rows), num_ballots).col3,
           Serializable(Head(rows), num_ballots).col1>>
         \o RowCellsCol3First(Tail(rows), num_ballots)

RECURSIVE RowCells(_, _)
RowCells(rows, num_ballots) ==
    IF rows = <<>> THEN <<>>
    ELSE <<Serializable(Head(rows), num_ballots).col1,
           Serializable(Head(rows), num_ballots).col3>>
         \o RowCells(Tail(rows), num_ballots)

RECURSIVE PlaneCells(_, _)
PlaneCells(ps, num_ballots) ==
    IF ps = <<>> THEN <<>>
    ELSE RowCells(Head(ps).rows, num_ballots) \o PlaneCells(Tail(ps), num_ballots)

\* Lines 239-255: CryptoHashData::new(roster), push_vec(audited), push(cell)...
Leaves(roster, audited, ps, num_ballots) ==
    roster \o audited \o PlaneCells(ps, num_ballots)

RECURSIVE IsPow2(_)
IsPow2(n) == IF n <= 1 THEN n = 1 ELSE n % 2 = 0 /\ IsPow2(n \div 2)

Filler == <<"pad">>
\* CryptoHashData::pad: filler leaves up to a power of two.
RECURSIVE Pad(_)
Pad(leaves) == IF IsPow2(Len(leaves)) THEN leaves ELSE Pad(Append(leaves, Filler))

\* new_tree(data).root(): leaf digests combined pairwise up the tree.
RECURSIVE Root(_)
Root(leaves) ==
    IF Len(leaves) = 0 THEN <<"empty">>
    ELSE IF Len(leaves) = 1 THEN <<"leaf", leaves[1]>>
    ELSE LET h == Len(leaves) \div 2
         IN  <<"node", Root(SubSeq(leaves, 1, h)), Root(SubSeq(leaves, h + 1, Len(leaves)))>>

new_tree(leaves) == [leaves |-> leaves, root |-> Root(leaves)]
NoTree == [leaves |-> <<>>, root |-> <<>>]
NoFile == [written |-> "nothing"]

(* -------------------------------- post --------------------------------- *)
GasAmounts == {21000, 53000}
NoTx == [to |-> NoAddress, data |-> <<>>, value |-> 0, gas |-> 0]

\* TransactionParameters with no destination (to: None).
TransactionParametersNoDest(addr, root, estimate) ==
    [to |-> NoAddress, data |-> root, value |-> 0, gas |-> estimate]

\* Lines 193-201: the transaction post signs; nonce, gas price and chain id are
\* None (filled in by the library).
TransactionParameters(addr, root, estimate) ==
    [to |-> addr, data |-> root, value |-> 0, gas |-> estimate]

\* PostNext signing right after the block number, with no gas estimate.
PostNextNoEstimate(at) ==
    CASE at = "transport" -> "block_number"
      [] at = "block_number" -> "sign_transaction"
      [] at = "estimate_gas" -> "sign_transaction"
      [] at = "sign_transaction" -> "send_raw_transaction"
      [] at = "send_raw_transaction" -> "done"

\* The order of the steps of post after the key is loaded (lines 184-214).
PostNext(at) ==
    CASE at = "transport" -> "block_number"
      [] at = "block_number" -> "estimate_gas"
      [] at = "estimate_gas" -> "sign_transaction"
      [] at = "sign_transaction" -> "send_raw_transaction"
      [] at = "send_raw_transaction" -> "done"

\* A failed request that is logged and passed over.
OnRequestFailureGoOn(at) ==
    [pc |-> IF at = "send_raw_transaction" THEN "done" ELSE
            IF at = "sign_transaction" THEN "send_raw_transaction" ELSE
            IF at = "estimate_gas" THEN "sign_transaction" ELSE "estimate_gas",
     result |-> IF at = "send_raw_transaction" THEN "Ok" ELSE "running"]

\* .expect(..) on a failed request: the thread panics, post never returns.
OnRequestFailure(at) == [pc |-> "done", result |-> "panic"]

\* CommitNext with the leaves handed to new_tree unpadded.
CommitNextNoPad(at) ==
    CASE at = "roster" -> "leaves"
      [] at = "leaves" -> "new_tree"
      [] at = "pad" -> "new_tree"
      [] at = "new_tree" -> "store_tree"
      [] at = "store_tree" -> "load_xxn"

\* The order of the steps of commit (lines 219-269); post starts at load_xxn.
CommitNext(at) ==
    CASE at = "roster" -> "leaves"
      [] at = "leaves" -> "pad"
      [] at = "pad" -> "new_tree"
      [] at = "new_tree" -> "store_tree"
      [] at = "store_tree" -> "load_xxn"

\* A store_tree error that is dropped: commit goes on to post.
OnStoreFailureGoOn == [pc |-> "load_xxn", result |-> "running"]

\* Line 266: store_tree(..)? returns the I/O error to the caller of commit.
OnStoreFailure == [pc |-> "done", result |-> "Err"]

\* AuditNext with the explorer asked before the index is built.
AuditNextFetchFirst(at) ==
    CASE at = "key" -> "get_data"
      [] at = "get_data" -> "map_votes"
      [] at = "map_votes" -> "count_votes"

\* The order of the steps of audit_votes after the key is loaded (lines 144-150).
AuditNext(at) ==
    CASE at = "key" -> "map_votes"
      [] at = "map_votes" -> "get_data"
      [] at = "get_data" -> "count_votes"

(* ------------------------------- state --------------------------------- *)
VARIABLES
    op,            \* the operation running: "audit_votes" or "commit"
    pc,            \* its position
    result,        \* "running", "Ok", "Err" (an Err returned) or "panic"
    ballots,       \* audit_votes: the ballots argument (moved into map_votes)
    config,        \* the NetworkConfig load_xxn returned
    pub_addr,      \* the address of the configured key
    choices,       \* the vote code index
    transactions,  \* count_votes: the transactions not yet visited
    vote_for,
    vote_against,
    tally,         \* what count_votes printed: <<>> or <<for, against>>
    requests,      \* every network request issued, in order, with its outcome
    index0,        \* history: the index as map_votes returned it
    seen,          \* history: the transactions visited so far, in order
    pollconf,      \* commit: the poll configuration argument
    planes,        \* commit: the planes argument
    roster,        \* commit: the serialized roster records
    data,          \* commit: the leaves (CryptoHashData)
    merkle_tree,   \* commit: the tree new_tree built
    tree_file,     \* the file merkle.yaml
    leaves0,       \* history: the leaves as collected, before pad
    gas,           \* post: the estimated gas
    signed,        \* post: the transaction signed, or NoTx
    sent           \* post: the transaction the node accepted, or NoTx

auditVars == <<ballots, choices, transactions, vote_for, vote_against, tally, index0, seen>>
commitVars == <<pollconf, planes, roster, data, merkle_tree, tree_file, leaves0>>
postVars == <<gas, signed, sent>>

vars == <<op, pc, result, config, pub_addr, requests, auditVars, commitVars, postVars>>

Init ==
    /\ op \in {"audit_votes", "commit"}
    /\ pc = IF op = "audit_votes" THEN "load_xxn" ELSE "roster"
    /\ result = "running"
    /\ IF op = "audit_votes"
       THEN /\ ballots \in BallotLists
            /\ pollconf = NoPoll
            /\ planes = <<>>
       ELSE /\ ballots = <<>>
            /\ pollconf \in PollConfiguration
            /\ planes \in PlaneLists
    /\ config = NoConfig
    /\ pub_addr = NoAddress
    /\ choices = EmptyMap
    /\ transactions = <<>>
    /\ vote_for = 0
    /\ vote_against = 0
    /\ tally = <<>>
    /\ requests = <<>>
    /\ index0 = EmptyMap
    /\ seen = <<>>
    /\ roster = <<>>
    /\ data = <<>>
    /\ merkle_tree = NoTree
    /\ tree_file = NoFile
    /\ leaves0 = <<>>
    /\ gas = 0
    /\ signed = NoTx
    /\ sent = NoTx

Finish(r) == /\ result' = r
             /\ pc' = "done"

\* load_xxn: File::open(config)? then serde_yaml::from_reader(..).expect(..).
LoadXxn ==
    /\ pc = "load_xxn"
    /\ \/ /\ Finish("Err")                  \* the file cannot be opened
          /\ UNCHANGED config
       \/ /\ Finish("panic")                \* the file is no NetworkConfig
          /\ UNCHANGED config
       \/ /\ \E c \in NetworkConfig : config' = c
          /\ pc' = "key"
          /\ UNCHANGED result
    /\ UNCHANGED <<op, pub_addr, requests, auditVars, commitVars, postVars>>

\* Lines 137-141 and 166-171: decode the key, derive the address.
LoadKey ==
    /\ pc = "key"
    /\ LET k == DecodeKey(config.key)
       IN  IF ~k.ok
           THEN /\ Finish("Err")
                /\ UNCHANGED pub_addr
           ELSE /\ pub_addr' = AddressOf(k.key)
                /\ pc' = IF op = "audit_votes" THEN AuditNext(pc) ELSE "transport"
                /\ UNCHANGED result
    /\ UNCHANGED <<op, config, requests, auditVars, commitVars, postVars>>

\* Line 144: map_votes(ballots)? (map_votes returns Ok always).
MapVotes ==
    /\ pc = "map_votes"
    /\ choices' = map_votes(ballots)
    /\ index0' = map_votes(ballots)
    /\ ballots' = <<>>
    /\ pc' = AuditNext(pc)
    /\ UNCHANGED <<op, result, config, pub_addr, transactions, vote_for, vote_against,
                   tally, requests, seen, commitVars, postVars>>

ExplorerFailures == {"request failed", "no text", "not a Response"}

\* get_data: one GET to the explorer; every failure is an expect().
GetData ==
    /\ pc = "get_data"
    /\ \/ \E f \in ExplorerFailures :
             /\ requests' = Append(requests, [kind |-> "explorer", outcome |-> f])
             /\ Finish("panic")
             /\ UNCHANGED transactions
       \/ \E txs \in TxLists :
             /\ requests' = Append(requests, [kind |-> "explorer", outcome |-> "ok"])
             /\ transactions' = txs
             /\ pc' = AuditNext(pc)
             /\ UNCHANGED result
    /\ config' = NoConfig
    /\ UNCHANGED <<op, ballots, pub_addr, choices, vote_for, vote_against, tally,
                   index0, seen, commitVars, postVars>>

\* count_votes, one transaction of the for_each.
CountVote ==
    /\ pc = "count_votes"
    /\ transactions # <<>>
    /\ LET r == CountOne(choices, vote_for, vote_against, Head(transactions))
       IN  /\ choices' = r.choices
           /\ vote_for' = r.vote_for
           /\ vote_against' = r.vote_against
           /\ IF r.panic THEN Finish("panic") ELSE UNCHANGED <<pc, result>>
    /\ seen' = Append(seen, Head(transactions))
    /\ transactions' = Tail(transactions)
    /\ UNCHANGED <<op, ballots, config, pub_addr, tally, requests, index0,
                   commitVars, postVars>>

\* count_votes, lines 111-112: print the tally, return Ok.
ReportTally ==
    /\ pc = "count_votes"
    /\ transactions = <<>>
    /\ tally' = <<vote_for, vote_against>>
    /\ Finish("Ok")
    /\ UNCHANGED <<op, ballots, config, pub_addr, choices, transactions, vote_for,
                   vote_against, requests, index0, seen, commitVars, postVars>>

\* commit, lines 219-231: decode the roster (four unwraps), serialize its records.
ReconstructRoster ==
    /\ pc = "roster"
    /\ IF pollconf.voter_roster.some /\ pollconf.voter_roster.value.stage = "ok"
       THEN /\ roster' = MapYaml(pollconf.voter_roster.value.records)
            /\ pc' = CommitNext(pc)
            /\ UNCHANGED result
       ELSE /\ Finish("panic")
            /\ UNCHANGED roster
    /\ UNCHANGED <<op, config, pub_addr, requests, auditVars, postVars,
                   pollconf, planes, data, merkle_tree, tree_file, leaves0>>

\* commit, lines 235-255: unwrap the audited ballots, collect the leaves.
CollectLeaves ==
    /\ pc = "leaves"
    /\ IF pollconf.audited_ballots.some
       THEN /\ data' = Leaves(roster, pollconf.audited_ballots.value, planes,
                              pollconf.num_ballots)
            /\ leaves0' = data'
            /\ planes' = <<>>
            /\ roster' = <<>>
            /\ pc' = CommitNext(pc)
            /\ UNCHANGED result
       ELSE /\ Finish("panic")
            /\ UNCHANGED <<data, planes, roster, leaves0>>
    /\ UNCHANGED <<op, config, pub_addr, requests, auditVars, postVars,
                   pollconf, merkle_tree, tree_file>>

\* commit, line 258.
PadData ==
    /\ pc = "pad"
    /\ data' = Pad(data)
    /\ pc' = CommitNext(pc)
    /\ UNCHANGED <<op, result, config, pub_addr, requests, auditVars, postVars,
                   pollconf, planes, roster, merkle_tree, tree_file, leaves0>>

\* commit, lines 262-263.
NewTree ==
    /\ pc = "new_tree"
    /\ merkle_tree' = new_tree(data)
    /\ data' = <<>>
    /\ pc' = CommitNext(pc)
    /\ UNCHANGED <<op, result, config, pub_addr, requests, auditVars, postVars,
                   pollconf, planes, roster, tree_file, leaves0>>

\* commit, line 266: store_tree fails (no file is left) or the file holds the tree.
StoreTree ==
    /\ pc = "store_tree"
    /\ \/ /\ tree_file' = NoFile
          /\ pc' = OnStoreFailure.pc
          /\ result' = OnStoreFailure.result
       \/ /\ tree_file' = [written |-> "all", tree |-> merkle_tree]
          /\ pc' = CommitNext(pc)
          /\ UNCHANGED result
    /\ UNCHANGED <<op, config, pub_addr, requests, auditVars, postVars,
                   pollconf, planes, roster, data, merkle_tree, leaves0>>

\* post, lines 184-185: Http::new(&uri).unwrap().
Transport ==
    /\ pc = "transport"
    /\ IF config.node = "http://node"
       THEN /\ pc' = PostNext(pc)
            /\ UNCHANGED result
       ELSE Finish("panic")
    /\ UNCHANGED <<op, config, pub_addr, requests, auditVars, commitVars, postVars>>

\* One request of post to the node: it succeeds, or the expect() panics.
Request(kind, ok) ==
    /\ requests' = Append(requests, [kind |-> kind, outcome |-> IF ok THEN "ok" ELSE "failed"])
    /\ IF ok
       THEN /\ pc' = PostNext(pc)
            /\ result' = IF PostNext(pc) = "done" THEN "Ok" ELSE result
       ELSE /\ pc' = OnRequestFailure(pc).pc
            /\ result' = OnRequestFailure(pc).result

\* Line 189.
BlockNumber ==
    /\ pc = "block_number"
    /\ \E ok \in BOOLEAN : Request("eth_blockNumber", ok)
    /\ UNCHANGED <<op, config, pub_addr, auditVars, commitVars, postVars>>

\* Line 190.
EstimateGas ==
    /\ pc = "estimate_gas"
    /\ \/ /\ Request("eth_estimateGas", FALSE)
          /\ UNCHANGED gas
       \/ /\ Request("eth_estimateGas", TRUE)
          /\ gas' \in GasAmounts
    /\ UNCHANGED <<op, config, pub_addr, auditVars, commitVars, signed, sent>>

\* Lines 193-205.
SignTransaction ==
    /\ pc = "sign_transaction"
    /\ \/ /\ Request("sign_transaction", FALSE)
          /\ UNCHANGED signed
       \/ /\ Request("sign_transaction", TRUE)
          /\ signed' = TransactionParameters(pub_addr, merkle_tree.root, gas)
    /\ UNCHANGED <<op, config, pub_addr, auditVars, commitVars, gas, sent>>

\* Lines 208-214.
SendRawTransaction ==
    /\ pc = "send_raw_transaction"
    /\ \/ /\ Request("eth_sendRawTransaction", FALSE)
          /\ UNCHANGED sent
       \/ /\ Request("eth_sendRawTransaction", TRUE)
          /\ sent' = signed
    /\ UNCHANGED <<op, config, pub_addr, auditVars, commitVars, gas, signed>>

Next ==
    \/ LoadXxn
    \/ LoadKey
    \/ MapVotes
    \/ GetData
    \/ CountVote
    \/ ReportTally
    \/ ReconstructRoster
    \/ CollectLeaves
    \/ PadData
    \/ NewTree
    \/ StoreTree
    \/ Transport
    \/ BlockNumber
    \/ EstimateGas
    \/ SignTransaction
    \/ SendRawTransaction

Spec == Init /\ [][Next]_vars

(* ------------------------------ properties ----------------------------- *)
\* A transaction carries code c when its input is "0x" + hex(utf8(json(c))).
Carries(transaction, c) == transaction.input = Prefix0x \o HexEncode(JsonVote(c))
CarriedBy(txs) == {c \in VoteCodes : \E i \in 1..Len(txs) : Carries(txs[i], c)}
YieldsCode(transaction) == \E c \in VoteCodes : Carries(transaction, c)
Counting == pc = "count_votes" /\ transactions # <<>>

\* C1: in count_votes each vote code is counted at most once: the transaction that
\* carries a code of the index raises the counters by one in all and takes the code
\* out of the index; a code out of the index stays out, and a transaction carrying
\* it leaves both counters as they are.
C1_CountedAtMostOnce ==
    [][\A c \in VoteCodes :
          /\ (Counting /\ Carries(Head(transactions), c) /\ c \in DOMAIN choices)
                => /\ c \notin DOMAIN choices'
                   /\ vote_for' + vote_against' = vote_for + vote_against + 1
          /\ (Counting /\ Carries(Head(transactions), c) /\ c \notin DOMAIN choices)
                => /\ vote_for' = vote_for
                   /\ vote_against' = vote_against
          /\ (pc = "count_votes" /\ c \notin DOMAIN choices) => c \notin DOMAIN choices'
      ]_vars

\* C1 witness: index {1111: For, 2222: Against}, two transactions carrying 1111,
\* tally for = 1.
C1_Witness ==
    /\ index0 = Insert(Insert(EmptyMap, Code1111, "For"), Code2222, "Against")
    /\ seen = <<[input |-> InputVote(Code1111)], [input |-> InputVote(Code1111)]>>
    /\ tally = <<1, 0>>

\* C2: transaction_to_votecode ends with Some or None on every input, never with a
\* panic.
C2_DecoderNeverAborts ==
    \A i \in 1..Len(seen) : transaction_to_votecode(seen[i]).tag \in {"Some", "None"}

\* The tally of count_votes on a whole list (no transaction of which panics).
RECURSIVE TallyOf(_, _, _, _)
TallyOf(ch, vf, va, txs) ==
    IF txs = <<>> THEN <<vf, va>>
    ELSE LET r == CountOne(ch, vf, va, Head(txs))
         IN  TallyOf(r.choices, r.vote_for, r.vote_against, Tail(txs))

\* C3: a transaction that yields no valid vote code is skipped and counting goes
\* on: count_votes does not stop at it, and the tally is the tally of the list
\* without such transactions.
C3_InvalidIsSkipped ==
    /\ \A i \in 1..Len(seen) : ~YieldsCode(seen[i]) => result # "panic"
    /\ tally # <<>> => tally = TallyOf(index0, 0, 0, SelectSeq(seen, YieldsCode))

\* C4: the reported tally is, per choice, the number of codes of the index built by
\* map_votes that some visited transaction carries.
C4_TallyIsObservedCodes ==
    tally # <<>> =>
        /\ tally[1] = Cardinality({c \in DOMAIN index0 :
                                      index0[c] = "For" /\ c \in CarriedBy(seen)})
        /\ tally[2] = Cardinality({c \in DOMAIN index0 :
                                      index0[c] = "Against" /\ c \in CarriedBy(seen)})

\* C4 witness: one ballot 1111/For, 2222/Against, one transaction carrying 1111.
C4_Witness ==
    /\ index0 = Insert(Insert(EmptyMap, Code1111, "For"), Code2222, "Against")
    /\ seen = <<[input |-> InputVote(Code1111)]>>
    /\ tally = <<1, 0>>

RECURSIVE Entries(_)
Entries(bs) ==
    IF bs = <<>> THEN <<>>
    ELSE <<Head(bs).choice1, Head(bs).choice2>> \o Entries(Tail(bs))

\* C6: map_votes succeeds on every ballot list; the keys of its index are the codes
\* of the ballots, each mapped to the choice of its last entry; the index has at
\* most 2 x |ballots| keys, fewer exactly when two entries share a code.
C6_IndexOfBallots ==
    [][pc = "map_votes" =>
         LET e == Entries(ballots)
             last(c) == CHOOSE i \in 1..Len(e) :
                            /\ e[i].votecode = c
                            /\ \A j \in (i + 1)..Len(e) : e[j].votecode # c
             collide == \E i, j \in 1..Len(e) : i # j /\ e[i].votecode = e[j].votecode
         IN  /\ pc' = "get_data"
             /\ result' = "running"
             /\ DOMAIN choices' = {e[i].votecode : i \in 1..Len(e)}
             /\ \A c \in DOMAIN choices' : choices'[c] = e[last(c)].choice
             /\ Cardinality(DOMAIN choices') <= 2 * Len(ballots)
             /\ (Cardinality(DOMAIN choices') < 2 * Len(ballots)) <=> collide
      ]_vars

\* C6 witness: map_votes has returned an index of the single key 1111 (the codes
\* of the ballots collide).
C6_Witness ==
    /\ pc = "get_data"
    /\ index0 = Insert(EmptyMap, Code1111, "Against")

\* The requests post sent to the node, in order.
IsLedger(r) == r.kind # "explorer"
LedgerRequests == SelectSeq(requests, IsLedger)
AnchorOrder == <<"eth_blockNumber", "eth_estimateGas", "sign_transaction",
                 "eth_sendRawTransaction">>
Succeeded(kind, before) ==
    \E j \in 1..(before - 1) : LedgerRequests[j].kind = kind /\ LedgerRequests[j].outcome = "ok"
AnchorState ==
    IF sent # NoTx THEN "Broadcast"
    ELSE IF Succeeded("sign_transaction", Len(LedgerRequests) + 1) THEN "Signed"
    ELSE IF Succeeded("eth_estimateGas", Len(LedgerRequests) + 1) THEN "GasEstimated"
    ELSE "Idle"

\* C7: post goes Idle -> GasEstimated -> Signed -> Broadcast: the requests are a
\* prefix of block number, estimate gas, sign, send; signing comes only after a
\* successful block query and gas estimate, sending only after a successful
\* signing, and a transaction is broadcast only by a successful send.
C7_AnchorOrder ==
    LET log == LedgerRequests
    IN  /\ Len(log) <= Len(AnchorOrder)
        /\ \A i \in 1..Len(log) : log[i].kind = AnchorOrder[i]
        /\ \A i \in 1..Len(log) :
              /\ log[i].kind = "sign_transaction"
                    => Succeeded("eth_blockNumber", i) /\ Succeeded("eth_estimateGas", i)
              /\ log[i].kind = "eth_sendRawTransaction" => Succeeded("sign_transaction", i)
        /\ sent # NoTx => Succeeded("eth_sendRawTransaction", Len(log) + 1)
        /\ AnchorState = "Signed" => gas \in GasAmounts

\* C7 witness: post has broadcast after the four requests.
C7_Witness ==
    /\ AnchorState = "Broadcast"
    /\ Len(LedgerRequests) = 4
    /\ result = "Ok"

\* C8: in post a failed request is fatal: every kind of request is sent at most
\* once, no request follows a failed one, and post does not return Ok.
C8_FailureIsFatal ==
    LET log == LedgerRequests
    IN  /\ \A i, j \in 1..Len(log) : log[i].kind = log[j].kind => i = j
        /\ \A i \in 1..Len(log) : log[i].outcome # "ok" => i = Len(log)
        /\ (\E i \in 1..Len(log) : log[i].outcome # "ok")
              => /\ result = "panic"
                 /\ pc = "done"
                 /\ sent = NoTx

\* C8 witness: signing failed after the block query and the gas estimate.
C8_Witness ==
    /\ Len(LedgerRequests) = 3
    /\ LedgerRequests[3] = [kind |-> "sign_transaction", outcome |-> "failed"]
    /\ result = "panic"

\* C9: a commit that ends in failure leaves neither a tree file nor a broadcast
\* transaction.
C9_NoPartialResult ==
    (op = "commit" /\ pc = "done" /\ result # "Ok")
        => (tree_file = NoFile /\ sent = NoTx)

MalformedKeys == {KeyNotHex, KeyOddHex, KeyShort, KeyZero, KeyOverflow}

\* C10: with a malformed configured key, post and audit_votes return an error
\* at the key and send no request, neither to the node nor to the explorer.
C10_BadKeyBeforeNetwork ==
    (config # NoConfig /\ config.key \in MalformedKeys)
        => /\ requests = <<>>
           /\ pc \in {"key", "done"}
           /\ pc = "done" => result = "Err"
           /\ sent = NoTx
           /\ tally = <<>>

\* C10 witness: post (under commit) has ended on a key of 32 zero bytes.
C10_Witness ==
    /\ op = "commit"
    /\ config # NoConfig
    /\ config.key = KeyZero
    /\ pc = "done"
    /\ result = "Err"

\* The rows of the planes before plane p.
RECURSIVE RowsBefore(_, _)
RowsBefore(ps, p) == IF p <= 1 THEN 0 ELSE Len(ps[p - 1].rows) + RowsBefore(ps, p - 1)

PaddedFrom(orig, d) ==
    LET n == Len(orig)
        m == Len(d)
        pow2(k) == \E e \in 0..k : 2 ^ e = k
    IN  /\ pow2(m)
        /\ m >= n
        /\ \A k \in n..(m - 1) : ~pow2(k)
        /\ SubSeq(d, 1, n) = orig
        /\ \A i \in (n + 1)..m : d[i] = <<"pad">>

\* C12: in commit the leaves reach pad as collected, and what new_tree is given
\* and builds the tree from is the collected sequence padded once: its length is
\* the smallest power of two >= n, its first n entries are the collected leaves
\* in order, the entries past n are the filler.
C12_PaddingLaw ==
    /\ pc = "pad" => data = leaves0
    /\ pc = "new_tree" => PaddedFrom(leaves0, data)
    /\ merkle_tree # NoTree => PaddedFrom(leaves0, merkle_tree.leaves)

\* C12 witness: three collected leaves, padded to four, wait for new_tree.
C12_Witness ==
    /\ pc = "new_tree"
    /\ Len(leaves0) = 3
    /\ Len(data) = 4
    /\ data[4] = Filler

\* C13: the transaction post signs, and the one it broadcasts, goes to the address
\* of the configured key, carries value zero, the estimated gas and the root
\* passed in; in commit that root is the root of the tree stored in the file.
C13_AnchoredTransaction ==
    /\ \A tx \in {signed, sent} \ {NoTx} :
          /\ tx.to = <<"address", HexDecode(config.key).bytes>>
          /\ tx.value = 0
          /\ tx.gas = gas
          /\ gas \in GasAmounts
          /\ tx.data = merkle_tree.root
          /\ tree_file.written = "all"
          /\ tx.data = tree_file.tree.root
          /\ PaddedFrom(leaves0, tree_file.tree.leaves)
    /\ sent # NoTx => sent = signed

\* C13 witness: a transaction was broadcast with gas 53000 for a tree of four
\* leaves.
C13_Witness ==
    /\ sent # NoTx
    /\ sent.gas = 53000
    /\ sent.to = AddressOf(Repeat(0, 31) \o <<1>>)
    /\ Len(tree_file.tree.leaves) = 4

StoreFailed == merkle_tree # NoTree /\ pc # "store_tree" /\ tree_file = NoFile

\* C14: commit stores the tree before it anchors the root: whenever post has sent
\* a request to the node the file holds the whole tree; and when store_tree has
\* failed, commit has returned the error and no request has been sent.
C14_StoreBeforeAnchor ==
    op = "commit" =>
        /\ pc \in {"load_xxn", "key", "transport", "block_number", "estimate_gas",
                   "sign_transaction", "send_raw_transaction"}
              => tree_file = [written |-> "all", tree |-> merkle_tree]
        /\ LedgerRequests # <<>> => tree_file = [written |-> "all", tree |-> merkle_tree]
        /\ StoreFailed => /\ pc = "done"
                          /\ result = "Err"
                          /\ requests = <<>>
                          /\ config = NoConfig
                          /\ signed = NoTx
                          /\ sent = NoTx

\* C14 witness: store_tree failed on a built tree and commit returned the error.
C14_Witness ==
    /\ op = "commit"
    /\ StoreFailed
    /\ pc = "done"
    /\ result = "Err"
    /\ Len(merkle_tree.leaves) = 4

\* What C15 says of an audit run whatever the number of its requests: a request
\* goes to the explorer, never to the node, after the ballots went into map_votes
\* and before anything is counted; after a failed request nothing is counted and
\* no tally is printed.
AuditRequestsInPlace ==
    /\ \A i \in 1..Len(requests) : requests[i].kind = "explorer"
    /\ gas = 0 /\ signed = NoTx /\ sent = NoTx
    /\ requests # <<>> => ballots = <<>>
    /\ (pc = "count_votes" \/ seen # <<>> \/ tally # <<>>)
          => requests = <<[kind |-> "explorer", outcome |-> "ok"]>>
    /\ (\E i \in 1..Len(requests) : requests[i].outcome # "ok")
          => /\ result = "panic"
             /\ seen = <<>>
             /\ vote_for = 0 /\ vote_against = 0
             /\ tally = <<>>

\* C15 as claimed: every audit run issues exactly one explorer request.
C15_ExactlyOneRequest ==
    op = "audit_votes" =>
        /\ AuditRequestsInPlace
        /\ pc = "done" => Len(requests) = 1

\* C15 amended: an audit run issues at most one explorer request, and exactly one
\* once the key is decoded and the index built (a run that fails at the
\* configuration or the key issues none); the rest as claimed.
C15_OneRequestOnceKeyed ==
    op = "audit_votes" =>
        /\ AuditRequestsInPlace
        /\ Len(requests) <= 1
        /\ (pub_addr # NoAddress /\ pc \notin {"map_votes", "get_data"}) => Len(requests) = 1
        /\ (pc = "done" /\ pub_addr = NoAddress) => (requests = <<>> /\ result # "Ok")

\* C15 witness: an audit run fetched once and printed a tally over two
\* transactions.
C15_Witness ==
    /\ op = "audit_votes"
    /\ requests = <<[kind |-> "explorer", outcome |-> "ok"]>>
    /\ Len(seen) = 2
    /\ tally # <<>>

Counted == vote_for + vote_against

\* C16: at every point of count_votes the two counters and the codes left in the
\* index add up to the size of the index as built; a step of count_votes never
\* adds a code to the index, never lowers a counter, and raises the sum of the
\* counters by at most one.
C16_TallyConservation ==
    /\ [](Counted + Cardinality(DOMAIN choices) = Cardinality(DOMAIN index0))
    /\ [][pc = "count_votes" =>
            /\ DOMAIN choices' \subseteq DOMAIN choices
            /\ vote_for' >= vote_for
            /\ vote_against' >= vote_against
            /\ Counted' <= Counted + 1
            /\ index0' = index0
         ]_vars

\* C16 witness: in the middle of count_votes, one code counted and one left.
C16_Witness ==
    /\ pc = "count_votes"
    /\ transactions # <<>>
    /\ seen # <<>>
    /\ vote_for = 1
    /\ vote_against = 0
    /\ Cardinality(DOMAIN choices) = 1
    /\ Cardinality(DOMAIN index0) = 2

\* The sequence txs in the order perm; txs with a copy of txs[i] put in after
\* position j.
Reordered(txs, perm) == [k \in 1..Len(txs) |-> txs[perm[k]]]
Duplicated(txs, i, j) == SubSeq(txs, 1, j) \o <<txs[i]>> \o SubSeq(txs, j + 1, Len(txs))
Orders(n) == {f \in [1..n -> 1..n] : \A a, b \in 1..n : f[a] = f[b] => a = b}

\* C17: the tally count_votes prints is the tally of the same index over every
\* reordering of the transactions, and over every reordering with one of the
\* transactions repeated anywhere.
C17_OrderIndependent ==
    tally # <<>> =>
        \A perm \in Orders(Len(seen)) :
            LET txs == Reordered(seen, perm)
            IN  /\ TallyOf(index0, 0, 0, txs) = tally
                /\ \A i \in 1..Len(txs) : \A j \in 0..Len(txs) :
                      TallyOf(index0, 0, 0, Duplicated(txs, i, j)) = tally

\* C17 witness: a tally of one For and one Against from 2222 seen before 1111.
C17_Witness ==
    /\ index0 = Insert(Insert(EmptyMap, Code1111, "For"), Code2222, "Against")
    /\ seen = <<[input |-> InputVote(Code2222)], [input |-> InputVote(Code1111)]>>
    /\ tally = <<1, 1>>

====
